---- MODULE Spec2Model ----
(***************************************************************************)
(* Count-down timer of stm32f7xx-hal (src/timer.rs): the Timer<TIM> struct *)
(* (clock, tim, timeout), the registers of its TIM block that the driver   *)
(* touches (PSC, ARR, CR1.CEN, SR.UIF, DIER.UIE, EGR.UG) and the bus bits  *)
(* used at construction.  The main context runs one operation at a time,   *)
(* statement by statement; the hardware counter and the interrupt context  *)
(* interleave with it.                                                     *)
(*                                                                         *)
(* u32 values are pairs <<hi, lo>> of 16-bit halves, because a u32 does    *)
(* not fit the integers of the model checker; u16 values are integers.     *)
(***************************************************************************)
EXTENDS Integers, Sequences, FiniteSets, TLC

VARIABLES
    clock,      \* Timer.clock: Hertz (u32), fixed at construction
    timeout,    \* Timer.timeout: Hertz (u32)
    checked,    \* build profile: TRUE = overflow checks on, FALSE = wrapping
    psc,        \* TIMx_PSC register (16 bits)
    arr,        \* TIMx_ARR register
    cen,        \* TIMx_CR1.CEN
    uif,        \* TIMx_SR.UIF
    uie,        \* TIMx_DIER.UIE
    apb_en,     \* bus clock-enable bit of the timer
    apb_rst,    \* bus reset bit of the timer
    pc,         \* position of the main context
    arg,        \* start's argument, timeout.into(): Hertz (u32)
    ticks,      \* start's local `ticks` (u32)
    pscv,       \* start's local `psc` (u16)
    arrv,       \* start's local `arr` (u16)
    op,         \* the operation the main context is in or completed last
    res,        \* what that operation returned, "none" while it runs
    fail,       \* why start panicked, "none" otherwise
    uif0,       \* history: uif when the last start was entered
    rolled,     \* history: a rollover since the later of the last start and
                \*          the last wait that returned Ok
    irqclr,     \* history: clear_interrupt called since the last start returned
    cancelled,  \* history: a cancel returned Ok since the last start
    nroll,      \* history: rollovers since the last start
    nelapsed,   \* history: waits that returned Ok since the last start
    nclear,     \* history: clears of uif by wait since the last start
    psc_act,    \* the prescaler the counter runs with: PSC as loaded by the
                \*          last update event
    sr_oth,     \* TIMx_SR: a status flag other than UIF (a compare flag)
    dier_oth,   \* TIMx_DIER: an enable bit other than UIE
    listening,  \* history: the last listen/unlisten since construction was listen
    sinceclr,   \* history: clear_interrupt was called and no rollover since
    served,     \* history: the interrupt handler was entered and returned
                \*          without clear_interrupt, since the last clear_interrupt
    cen0,       \* history: cen when the start in progress was entered
                \*          (cen itself once start has returned)
    arr0,       \* history: arr when the start in progress was entered
                \*          (arr itself once start has returned)
    uifc,       \* history: uif when the last successful cancel ran
    okc,        \* history: waits that returned Ok since that cancel
    ctor        \* history: the constructor was called and no operation since

vars == <<clock, timeout, checked, psc, arr, cen, uif, uie, apb_en, apb_rst,
          pc, arg, ticks, pscv, arrv, op, res, fail,
          uif0, rolled, irqclr, cancelled, nroll, nelapsed, nclear,
          psc_act, sr_oth, dier_oth, listening, sinceclr, served,
          cen0, arr0, uifc, okc, ctor>>

regs  == <<psc, arr, cen, uif, uie>>
bus   == <<apb_en, apb_rst>>
locals == <<arg, ticks, pscv, arrv>>
hist  == <<uif0, rolled, irqclr, cancelled, nroll, nelapsed, nclear>>

----------------------------------------------------------------------------
(* Bounds of the model *)

\* rollovers the hardware produces between two completed starts
MaxRoll == 2

----------------------------------------------------------------------------
(* Unsigned arithmetic *)

\* 1 << 16
Two16 == 65536

\* largest u16
MaxU16 == Two16 - 1

\* a u32 from a number below 2^31
U32(n) == <<n \div Two16, n % Two16>>

Zero32 == <<0, 0>>
Max32 == <<MaxU16, MaxU16>>

IsZero(a) == a[1] = 0 /\ a[2] = 0

Lt(a, b) == a[1] < b[1] \/ (a[1] = b[1] /\ a[2] < b[2])

\* a - b for a >= b
Sub(a, b) ==
    IF a[2] >= b[2] THEN <<a[1] - b[1], a[2] - b[2]>>
    ELSE <<a[1] - b[1] - 1, a[2] + Two16 - b[2]>>

\* 2*a + bit
Shl1Add(a, bit) ==
    LET lo == 2 * a[2] + bit
    IN  <<2 * a[1] + lo \div Two16, lo % Two16>>

\* the number a u32 below 2^31 stands for
Num(a) == a[1] * Two16 + a[2]

\* whether a u32 is below 2^31
Small(a) == a[1] < Two16 \div 2

\* <<n / d, n % d>> on u32 for d # 0 when n or d is 2^31 or more: with such
\* a d the quotient is 0 or 1; otherwise n = 2*m + b with m below 2^31, and
\* the quotient and remainder of n follow from those of m
DivBig(n, d) ==
    IF ~Small(d)
    THEN IF Lt(n, d) THEN <<Zero32, n>> ELSE <<U32(1), Sub(n, d)>>
    ELSE LET b  == n[2] % 2
             m  == n[1] * (Two16 \div 2) + n[2] \div 2
             dn == Num(d)
             q0 == m \div dn
             r0 == m % dn
         IN  IF r0 + b >= dn - r0
             THEN <<Shl1Add(U32(q0), 1), U32(r0 - (dn - r0 - b))>>
             ELSE <<Shl1Add(U32(q0), 0), U32(2 * r0 + b)>>

\* <<n / d, n % d>> on u32, d # 0: on the numbers themselves when both are
\* below 2^31, from the halved dividend otherwise
DivRem32(n, d) ==
    IF Small(n) /\ Small(d)
    THEN <<U32(Num(n) \div Num(d)), U32(Num(n) % Num(d))>>
    ELSE DivBig(n, d)

\* n / d on u32, d # 0
Div32(n, d) == DivRem32(n, d)[1]

\* n % d on u32, d # 0
Rem32(n, d) == DivRem32(n, d)[2]

\* a * b as a u32, for a, b <= 2^16 (the product may pass 2^31)
Mul17(a, b) ==
    LET x  == a * (b \div 256)
        lo == (x % 256) * 256 + a * (b % 256)
    IN  <<x \div 256 + lo \div Two16, lo % Two16>>

Le(a, b) == ~Lt(b, a)

\* ceil(t / 2^16) of a u32
CeilDiv16(t) == t[1] + (IF t[2] > 0 THEN 1 ELSE 0)

----------------------------------------------------------------------------
(* The arithmetic of start *)

Fits16(q) == q[1] = 0

\* line 51: self.clock.0 / frequency; a division by zero panics in every build
TicksOf(clk, freq) ==
    IF IsZero(freq) THEN [ok |-> FALSE, why |-> "div0_ticks", val |-> Zero32]
    ELSE [ok |-> TRUE, why |-> "none", val |-> Div32(clk, freq)]

\* PscOf with the `- 1` forgotten: u16(ticks / (1 << 16))
PscOf_NoMinus(t, chk) ==
    LET q == Div32(t, U32(Two16))
    IN  IF Fits16(q) THEN [ok |-> TRUE, why |-> "none", val |-> q[2]]
        ELSE [ok |-> FALSE, why |-> "psc_cast", val |-> 0]

\* line 52: u16((ticks - 1) / (1 << 16)).unwrap()
\* ticks - 1 on u32 panics when overflow checks are on and wraps otherwise
PscOf(t, chk) ==
    IF IsZero(t) /\ chk THEN [ok |-> FALSE, why |-> "sub_overflow", val |-> 0]
    ELSE LET t1 == IF IsZero(t) THEN Max32 ELSE Sub(t, U32(1))
             q  == Div32(t1, U32(Two16))
         IN  IF Fits16(q) THEN [ok |-> TRUE, why |-> "none", val |-> q[2]]
             ELSE [ok |-> FALSE, why |-> "psc_cast", val |-> 0]

\* ArrOf with the reload one less than the quotient: ticks / (psc + 1) - 1
ArrOf_MinusOne(t, p, chk) ==
    IF p = MaxU16 /\ chk THEN [ok |-> FALSE, why |-> "add_overflow", val |-> 0]
    ELSE LET d == (p + 1) % Two16
         IN  IF d = 0 THEN [ok |-> FALSE, why |-> "div0_arr", val |-> 0]
             ELSE LET q == Div32(t, U32(d))
                  IN  IF IsZero(q) /\ chk
                      THEN [ok |-> FALSE, why |-> "sub_overflow", val |-> 0]
                      ELSE LET q1 == IF IsZero(q) THEN Max32 ELSE Sub(q, U32(1))
                           IN  IF Fits16(q1)
                               THEN [ok |-> TRUE, why |-> "none", val |-> q1[2]]
                               ELSE [ok |-> FALSE, why |-> "arr_cast", val |-> 0]

\* ArrOf with psc + 1 computed on u32, where it cannot overflow:
\* ticks / (u32(psc) + 1)
ArrOf_Widened(t, p, chk) ==
    LET q == Div32(t, U32(p + 1))
    IN  IF Fits16(q) THEN [ok |-> TRUE, why |-> "none", val |-> q[2]]
        ELSE [ok |-> FALSE, why |-> "arr_cast", val |-> 0]

\* line 56: u16(ticks / u32(psc + 1)).unwrap()
\* psc + 1 on u16 panics when overflow checks are on and wraps to 0 otherwise
ArrOf(t, p, chk) ==
    IF p = MaxU16 /\ chk THEN [ok |-> FALSE, why |-> "add_overflow", val |-> 0]
    ELSE LET d == (p + 1) % Two16
         IN  IF d = 0 THEN [ok |-> FALSE, why |-> "div0_arr", val |-> 0]
             ELSE LET q == Div32(t, U32(d))
                  IN  IF Fits16(q) THEN [ok |-> TRUE, why |-> "none", val |-> q[2]]
                      ELSE [ok |-> FALSE, why |-> "arr_cast", val |-> 0]

----------------------------------------------------------------------------
(* Inputs *)

\* clocks.timclk1() / clocks.timclk2()
ClockSet == {U32(16000000), U32(Two16), Max32}

\* timeout.into()
TimeoutSet == {Zero32, U32(1), U32(1000), U32(48000), U32(100000)}

Bit == {0, 1}

Results == {"none", "done", "Ok", "WouldBlock", "Disabled"}

----------------------------------------------------------------------------
(* Initial state: the TIM block is not owned by a Timer; whoever held the  *)
(* block before may have left its control bits in any state.               *)

Init ==
    /\ clock \in ClockSet
    /\ timeout = Zero32
    /\ checked \in BOOLEAN
    /\ psc = 0
    /\ arr = MaxU16
    /\ cen \in Bit
    /\ uif \in Bit
    /\ uie \in Bit
    /\ apb_en = 0
    /\ apb_rst = 0
    /\ pc = "released"
    /\ arg = Zero32
    /\ ticks = Zero32
    /\ pscv = 0
    /\ arrv = 0
    /\ op = "none"
    /\ res = "none"
    /\ fail = "none"
    /\ uif0 = 0
    /\ rolled = FALSE
    /\ irqclr = FALSE
    /\ cancelled = FALSE
    /\ nroll = 0
    /\ nelapsed = 0
    /\ nclear = 0
    /\ psc_act = 0
    /\ sr_oth \in Bit
    /\ dier_oth \in Bit
    /\ listening = FALSE
    /\ sinceclr = FALSE
    /\ served = FALSE
    /\ cen0 = 0
    /\ arr0 = MaxU16
    /\ uifc = 0
    /\ okc = 0
    /\ ctor = FALSE

----------------------------------------------------------------------------
(* Private helpers *)

\* fn enable: cr1.modify(cen().set_bit())
enable == cen' = 1

\* fn disable: cr1.modify(cen().clear_bit())
disable == cen' = 0

\* the main context returns from an operation
Return(o, r) == pc' = "idle" /\ op' = o /\ res' = r

\* an unwrap, an overflow check or a division by zero panics: the program stops
Panic(why) == pc' = "panicked" /\ fail' = why /\ UNCHANGED <<op, res>>

----------------------------------------------------------------------------
(* Construction: Timer::tim2 .. Timer::tim14 *)

\* the caller hands a free TIM block and a timeout to the constructor
NewCall(t) ==
    /\ pc = "released"
    /\ pc' = "new_101"
    /\ arg' = t
    /\ op' = "new"
    /\ res' = "none"
    /\ UNCHANGED <<clock, timeout, checked, regs, bus, ticks, pscv, arrv,
                   fail, hist>>
    /\ ctor' = TRUE
    /\ sinceclr' = FALSE
    /\ served' = FALSE
    /\ uifc' = 0
    /\ okc' = 0
    /\ UNCHANGED <<psc_act, sr_oth, dier_oth, listening, cen0, arr0>>

\* line 101: apb.enr().modify(timXen().set_bit())
New101 ==
    /\ pc = "new_101"
    /\ apb_en' = 1
    /\ pc' = "new_102"
    /\ UNCHANGED <<clock, timeout, checked, regs, apb_rst, locals,
                   op, res, fail, hist>>
    /\ UNCHANGED <<psc_act, sr_oth, dier_oth, listening, sinceclr,
                   served, cen0, arr0, uifc, okc, ctor>>

\* line 102: apb.rstr().modify(timXrst().set_bit()): the block is held in
\* reset and its registers take their power-on values
New102 ==
    /\ pc = "new_102"
    /\ apb_rst' = 1
    /\ psc' = 0
    /\ arr' = MaxU16
    /\ cen' = 0
    /\ uif' = 0
    /\ uie' = 0
    /\ pc' = "new_103"
    /\ UNCHANGED <<clock, timeout, checked, apb_en, locals, op, res, fail, hist>>
    /\ psc_act' = 0
    /\ sr_oth' = 0
    /\ dier_oth' = 0
    /\ listening' = FALSE
    /\ UNCHANGED <<sinceclr, served, cen0, arr0, uifc, okc, ctor>>

\* New103 that leaves the reset bit set
New103_Skip ==
    /\ pc = "new_103"
    /\ pc' = "new_107"
    /\ UNCHANGED <<clock, timeout, checked, regs, bus, locals, op, res, fail, hist>>
    /\ UNCHANGED <<psc_act, sr_oth, dier_oth, listening, sinceclr,
                   served, cen0, arr0, uifc, okc, ctor>>

\* line 103: apb.rstr().modify(timXrst().clear_bit())
New103 ==
    /\ pc = "new_103"
    /\ apb_rst' = 0
    /\ pc' = "new_107"
    /\ UNCHANGED <<clock, timeout, checked, regs, apb_en, locals,
                   op, res, fail, hist>>
    /\ UNCHANGED <<psc_act, sr_oth, dier_oth, listening, sinceclr,
                   served, cen0, arr0, uifc, okc, ctor>>

\* start's entry without self.disable()
StartEnter_NoDisable ==
    /\ op' = "start"
    /\ res' = "none"
    /\ uif0' = uif
    /\ rolled' = FALSE
    /\ cancelled' = FALSE
    /\ nroll' = 0
    /\ nelapsed' = 0
    /\ nclear' = 0
    /\ cen0' = cen
    /\ arr0' = arr
    /\ uifc' = 0
    /\ okc' = 0
    /\ cen' = cen
    /\ pc' = "start_49"

\* start's entry, line 47: self.disable()
StartEnter ==
    /\ op' = "start"
    /\ res' = "none"
    /\ uif0' = uif
    /\ rolled' = FALSE
    /\ cancelled' = FALSE
    /\ nroll' = 0
    /\ nelapsed' = 0
    /\ nclear' = 0
    /\ cen0' = cen
    /\ arr0' = arr
    /\ uifc' = 0
    /\ okc' = 0
    /\ disable
    /\ pc' = "start_49"

\* lines 107-112: Timer { clock, tim, timeout: Hertz(0) }; timer.start(timeout)
New107 ==
    /\ pc = "new_107"
    /\ timeout' = Zero32
    /\ StartEnter
    /\ UNCHANGED <<clock, checked, psc, arr, uif, uie, bus, locals, fail, irqclr>>
    /\ UNCHANGED <<psc_act, sr_oth, dier_oth, listening, sinceclr, served, ctor>>

----------------------------------------------------------------------------
(* CountDown::start *)

\* start(timeout) is called on an idle timer; line 47
StartCall(t) ==
    /\ pc = "idle"
    /\ arg' = t
    /\ StartEnter
    /\ UNCHANGED <<clock, timeout, checked, psc, arr, uif, uie, bus,
                   ticks, pscv, arrv, fail, irqclr>>
    /\ ctor' = FALSE
    /\ UNCHANGED <<psc_act, sr_oth, dier_oth, listening, sinceclr, served>>

\* lines 49-52: self.timeout = timeout.into(); ticks; psc
Start49 ==
    /\ pc = "start_49"
    /\ timeout' = arg
    /\ LET tk == TicksOf(clock, arg)
       IN  IF ~tk.ok
           THEN Panic(tk.why) /\ UNCHANGED <<ticks, pscv>>
           ELSE LET p == PscOf(tk.val, checked)
                IN  /\ ticks' = tk.val
                    /\ IF p.ok
                       THEN /\ pscv' = p.val
                            /\ pc' = "start_54"
                            /\ UNCHANGED <<op, res, fail>>
                       ELSE Panic(p.why) /\ UNCHANGED pscv
    /\ UNCHANGED <<clock, checked, regs, bus, arg, arrv, hist>>
    /\ UNCHANGED <<psc_act, sr_oth, dier_oth, listening, sinceclr,
                   served, cen0, arr0, uifc, okc, ctor>>

\* Start54 with the prescaler write left out
Start54_Skip ==
    /\ pc = "start_54"
    /\ pc' = "start_56"
    /\ UNCHANGED <<clock, timeout, checked, regs, bus, locals, op, res, fail, hist>>
    /\ UNCHANGED <<psc_act, sr_oth, dier_oth, listening, sinceclr,
                   served, cen0, arr0, uifc, okc, ctor>>

\* line 54: self.tim.psc.write(w.psc().bits(psc))
Start54 ==
    /\ pc = "start_54"
    /\ psc' = pscv
    /\ pc' = "start_56"
    /\ UNCHANGED <<clock, timeout, checked, arr, cen, uif, uie, bus, locals,
                   op, res, fail, hist>>
    /\ UNCHANGED <<psc_act, sr_oth, dier_oth, listening, sinceclr,
                   served, cen0, arr0, uifc, okc, ctor>>

\* line 56: let arr = u16(ticks / u32(psc + 1)).unwrap()
Start56 ==
    /\ pc = "start_56"
    /\ LET a == ArrOf(ticks, pscv, checked)
       IN  IF a.ok
           THEN /\ arrv' = a.val
                /\ pc' = "start_58"
                /\ UNCHANGED <<op, res, fail>>
           ELSE Panic(a.why) /\ UNCHANGED arrv
    /\ UNCHANGED <<clock, timeout, checked, regs, bus, arg, ticks, pscv, hist>>
    /\ UNCHANGED <<psc_act, sr_oth, dier_oth, listening, sinceclr,
                   served, cen0, arr0, uifc, okc, ctor>>

\* Start58 with self.enable() moved before the reload write
Start58_EnableFirst ==
    /\ pc = "start_58"
    /\ enable
    /\ arr' = arrv
    /\ pc' = "start_61"
    /\ UNCHANGED <<clock, timeout, checked, psc, uif, uie, bus, locals,
                   op, res, fail, hist>>
    /\ UNCHANGED <<psc_act, sr_oth, dier_oth, listening, sinceclr,
                   served, cen0, arr0, uifc, okc, ctor>>

\* line 58: self.tim.arr.write(w.bits(u32(arr)))
Start58 ==
    /\ pc = "start_58"
    /\ arr' = arrv
    /\ pc' = "start_61"
    /\ UNCHANGED <<clock, timeout, checked, psc, cen, uif, uie, bus, locals,
                   op, res, fail, hist>>
    /\ UNCHANGED <<psc_act, sr_oth, dier_oth, listening, sinceclr,
                   served, cen0, arr0, uifc, okc, ctor>>

\* Start61 with the write of ug left out: no update event
Start61_NoUpdate ==
    /\ pc = "start_61"
    /\ pc' = "start_65"
    /\ UNCHANGED <<clock, timeout, checked, regs, bus, locals, op, res, fail, hist>>
    /\ UNCHANGED <<psc_act, sr_oth, dier_oth, listening, sinceclr,
                   served, cen0, arr0, uifc, okc, ctor>>

\* line 61: self.tim.egr.write(w.ug().set_bit()): the forced update event
\* raises the update flag
Start61 ==
    /\ pc = "start_61"
    /\ uif' = 1
    /\ pc' = "start_65"
    /\ UNCHANGED <<clock, timeout, checked, psc, arr, cen, uie, bus, locals,
                   op, res, fail, hist>>
    /\ psc_act' = psc
    /\ UNCHANGED <<sr_oth, dier_oth, listening, sinceclr, served,
                   cen0, arr0, uifc, okc, ctor>>

\* Start65 with the clear of the update flag left out
Start65_NoClear ==
    /\ pc = "start_65"
    /\ pc' = "start_67"
    /\ UNCHANGED <<clock, timeout, checked, regs, bus, locals, op, res, fail, hist>>
    /\ UNCHANGED <<psc_act, sr_oth, dier_oth, listening, sinceclr,
                   served, cen0, arr0, uifc, okc, ctor>>

\* line 65: self.tim.sr.modify(w.uif().clear_bit())
Start65 ==
    /\ pc = "start_65"
    /\ uif' = 0
    /\ pc' = "start_67"
    /\ UNCHANGED <<clock, timeout, checked, psc, arr, cen, uie, bus, locals,
                   op, res, fail, hist>>
    /\ UNCHANGED <<psc_act, sr_oth, dier_oth, listening, sinceclr,
                   served, cen0, arr0, uifc, okc, ctor>>

\* line 67: self.enable(); start returns
Start67 ==
    /\ pc = "start_67"
    /\ enable
    /\ Return("start", "done")
    /\ irqclr' = FALSE
    /\ UNCHANGED <<clock, timeout, checked, psc, arr, uif, uie, bus, locals,
                   fail, uif0, rolled, cancelled, nroll, nelapsed, nclear>>
    /\ cen0' = 1
    /\ arr0' = arr
    /\ UNCHANGED <<psc_act, sr_oth, dier_oth, listening,
                   sinceclr, served, uifc, okc, ctor>>

----------------------------------------------------------------------------
(* CountDown::wait *)

\* Wait71 that does not look at the update flag
Wait71_Always ==
    /\ pc = "idle"
    /\ pc' = "wait_74"
    /\ UNCHANGED <<clock, timeout, checked, regs, bus, locals, op, res, fail, hist>>
    /\ ctor' = FALSE
    /\ UNCHANGED <<psc_act, sr_oth, dier_oth, listening, sinceclr,
                   served, cen0, arr0, uifc, okc>>

\* Wait71 that also reports WouldBlock when the counter is stopped
Wait71_ChecksCen ==
    /\ pc = "idle"
    /\ IF uif = 0 \/ cen = 0
       THEN Return("wait", "WouldBlock")
       ELSE pc' = "wait_74" /\ UNCHANGED <<op, res>>
    /\ UNCHANGED <<clock, timeout, checked, regs, bus, locals, fail, hist>>
    /\ ctor' = FALSE
    /\ UNCHANGED <<psc_act, sr_oth, dier_oth, listening, sinceclr,
                   served, cen0, arr0, uifc, okc>>

\* line 71: if self.tim.sr.read().uif().bit_is_clear() { Err(WouldBlock) }
Wait71 ==
    /\ pc = "idle"
    /\ IF uif = 0
       THEN Return("wait", "WouldBlock")
       ELSE pc' = "wait_74" /\ UNCHANGED <<op, res>>
    /\ UNCHANGED <<clock, timeout, checked, regs, bus, locals, fail, hist>>
    /\ ctor' = FALSE
    /\ UNCHANGED <<psc_act, sr_oth, dier_oth, listening, sinceclr,
                   served, cen0, arr0, uifc, okc>>

\* Wait74 that reports Ok and leaves the update flag set
Wait74_NoClear ==
    /\ pc = "wait_74"
    /\ Return("wait", "Ok")
    /\ rolled' = FALSE
    /\ nelapsed' = nelapsed + 1
    /\ UNCHANGED <<clock, timeout, checked, regs, bus, locals,
                   fail, uif0, irqclr, cancelled, nroll, nclear>>
    /\ okc' = IF cancelled THEN okc + 1 ELSE okc
    /\ UNCHANGED <<psc_act, sr_oth, dier_oth, listening, sinceclr,
                   served, cen0, arr0, uifc, ctor>>

\* lines 74-75: self.tim.sr.modify(w.uif().clear_bit()); Ok(())
Wait74 ==
    /\ pc = "wait_74"
    /\ uif' = 0
    /\ Return("wait", "Ok")
    /\ rolled' = FALSE
    /\ nelapsed' = nelapsed + 1
    /\ nclear' = nclear + 1
    /\ UNCHANGED <<clock, timeout, checked, psc, arr, cen, uie, bus, locals,
                   fail, uif0, irqclr, cancelled, nroll>>
    /\ okc' = IF cancelled THEN okc + 1 ELSE okc
    /\ UNCHANGED <<psc_act, sr_oth, dier_oth, listening, sinceclr,
                   served, cen0, arr0, uifc, ctor>>

----------------------------------------------------------------------------
(* Cancel::cancel *)

\* cancel without its guard: disables and returns Ok whatever cen is
Cancel_NoGuard ==
    /\ pc = "idle"
    /\ disable
    /\ Return("cancel", "Ok")
    /\ cancelled' = TRUE
    /\ UNCHANGED <<clock, timeout, checked, psc, arr, uif, uie, bus, locals,
                   fail, uif0, rolled, irqclr, nroll, nelapsed, nclear>>
    /\ uifc' = uif
    /\ okc' = 0
    /\ ctor' = FALSE
    /\ UNCHANGED <<psc_act, sr_oth, dier_oth, listening,
                   sinceclr, served, cen0, arr0>>

\* cancel that also clears the update flag when it stops the counter
Cancel_ClearsFlag ==
    /\ pc = "idle"
    /\ IF cen # 1
       THEN Return("cancel", "Disabled") /\ UNCHANGED <<cen, uif, cancelled>>
       ELSE disable /\ uif' = 0 /\ Return("cancel", "Ok") /\ cancelled' = TRUE
    /\ UNCHANGED <<clock, timeout, checked, psc, arr, uie, bus, locals,
                   fail, uif0, rolled, irqclr, nroll, nelapsed, nclear>>
    /\ uifc' = IF cen # 1 THEN uifc ELSE uif
    /\ okc' = IF cen # 1 THEN okc ELSE 0
    /\ ctor' = FALSE
    /\ UNCHANGED <<psc_act, sr_oth, dier_oth, listening, sinceclr,
                   served, cen0, arr0>>

\* lines 83-91
Cancel ==
    /\ pc = "idle"
    /\ IF cen # 1
       THEN Return("cancel", "Disabled") /\ UNCHANGED <<cen, cancelled>>
       ELSE disable /\ Return("cancel", "Ok") /\ cancelled' = TRUE
    /\ UNCHANGED <<clock, timeout, checked, psc, arr, uif, uie, bus, locals,
                   fail, uif0, rolled, irqclr, nroll, nelapsed, nclear>>
    /\ uifc' = IF cen # 1 THEN uifc ELSE uif
    /\ okc' = IF cen # 1 THEN okc ELSE 0
    /\ ctor' = FALSE
    /\ UNCHANGED <<psc_act, sr_oth, dier_oth, listening,
                   sinceclr, served, cen0, arr0>>

----------------------------------------------------------------------------
(* listen, unlisten, clear_interrupt, free *)

\* lines 118-125: dier.write(w.uie().set_bit())
Listen ==
    /\ pc = "idle"
    /\ uie' = 1
    /\ Return("listen", "done")
    /\ UNCHANGED <<clock, timeout, checked, psc, arr, cen, uif, bus, locals,
                   fail, hist>>
    /\ dier_oth' = 0
    /\ listening' = TRUE
    /\ ctor' = FALSE
    /\ UNCHANGED <<psc_act, sr_oth, sinceclr, served, cen0, arr0, uifc, okc>>

\* unlisten that sets the bit, as listen does
Unlisten_Sets ==
    /\ pc = "idle"
    /\ uie' = 1
    /\ Return("unlisten", "done")
    /\ UNCHANGED <<clock, timeout, checked, psc, arr, cen, uif, bus, locals,
                   fail, hist>>
    /\ dier_oth' = 0
    /\ listening' = FALSE
    /\ ctor' = FALSE
    /\ UNCHANGED <<psc_act, sr_oth, sinceclr, served, cen0, arr0, uifc, okc>>

\* lines 141-148: dier.write(w.uie().clear_bit())
Unlisten ==
    /\ pc = "idle"
    /\ uie' = 0
    /\ Return("unlisten", "done")
    /\ UNCHANGED <<clock, timeout, checked, psc, arr, cen, uif, bus, locals,
                   fail, hist>>
    /\ dier_oth' = 0
    /\ listening' = FALSE
    /\ ctor' = FALSE
    /\ UNCHANGED <<psc_act, sr_oth, sinceclr, served, cen0, arr0, uifc, okc>>

\* the positions of the main context at which a Timer exists
Alive == {"idle", "wait_74", "start_49", "start_54", "start_56", "start_58",
          "start_61", "start_65", "start_67"}

\* lines 131-138: sr.write(w.uif().clear_bit()), from the interrupt context
\* or between two operations of the main context
ClearInterrupt ==
    /\ pc \in Alive
    /\ uif' = 0
    /\ irqclr' = TRUE
    /\ UNCHANGED <<clock, timeout, checked, psc, arr, cen, uie, bus, pc, locals,
                   op, res, fail, uif0, rolled, cancelled, nroll, nelapsed, nclear>>
    /\ sr_oth' = 0
    /\ sinceclr' = TRUE
    /\ served' = FALSE
    /\ UNCHANGED <<psc_act, dier_oth, listening, cen0, arr0, uifc, okc, ctor>>

\* free that hands the block back without disabling the counter
Free_NoDisable ==
    /\ pc = "idle"
    /\ pc' = "released"
    /\ op' = "free"
    /\ res' = "done"
    /\ UNCHANGED <<clock, timeout, checked, regs, bus, locals, fail, hist>>
    /\ ctor' = FALSE
    /\ UNCHANGED <<psc_act, sr_oth, dier_oth, listening, sinceclr,
                   served, cen0, arr0, uifc, okc>>

\* lines 151-155: self.disable(); self.tim
Free ==
    /\ pc = "idle"
    /\ disable
    /\ pc' = "released"
    /\ op' = "free"
    /\ res' = "done"
    /\ UNCHANGED <<clock, timeout, checked, psc, arr, uif, uie, bus, locals,
                   fail, hist>>
    /\ ctor' = FALSE
    /\ UNCHANGED <<psc_act, sr_oth, dier_oth, listening, sinceclr,
                   served, cen0, arr0, uifc, okc>>

----------------------------------------------------------------------------
(* The hardware counter *)

\* the running counter reaches its reload value: update event
Rollover ==
    /\ cen = 1
    /\ apb_en = 1
    /\ apb_rst = 0
    /\ nroll < MaxRoll
    /\ uif' = 1
    /\ rolled' = TRUE
    /\ nroll' = nroll + 1
    /\ UNCHANGED <<clock, timeout, checked, psc, arr, cen, uie, bus, pc, locals,
                   op, res, fail, uif0, irqclr, cancelled, nelapsed, nclear>>
    /\ psc_act' = psc
    /\ sinceclr' = FALSE
    /\ UNCHANGED <<sr_oth, dier_oth, listening, served,
                   cen0, arr0, uifc, okc, ctor>>

\* the running counter matches a compare register: the hardware raises a
\* status flag other than UIF
CompareMatch ==
    /\ cen = 1
    /\ apb_en = 1
    /\ apb_rst = 0
    /\ sr_oth' = 1
    /\ UNCHANGED <<clock, timeout, checked, regs, bus, pc, locals, op, res, fail,
                   hist, psc_act, dier_oth, listening, sinceclr, served,
                   cen0, arr0, uifc, okc, ctor>>

----------------------------------------------------------------------------
(* The interrupt context *)

\* the timeout interrupt is pending: DIER.UIE and SR.UIF are both set
IrqCond == uie = 1 /\ uif = 1

\* the interrupt dispatch enters a handler that returns without calling
\* clear_interrupt
Handler ==
    /\ pc \in Alive
    /\ IrqCond
    /\ served' = TRUE
    /\ UNCHANGED <<clock, timeout, checked, regs, bus, pc, locals, op, res, fail,
                   hist, psc_act, sr_oth, dier_oth, listening, sinceclr,
                   cen0, arr0, uifc, okc, ctor>>

----------------------------------------------------------------------------

Next ==
    \/ \E t \in TimeoutSet : NewCall(t)
    \/ New101
    \/ New102
    \/ New103
    \/ New107
    \/ \E t \in TimeoutSet : StartCall(t)
    \/ Start49
    \/ Start54
    \/ Start56
    \/ Start58
    \/ Start61
    \/ Start65
    \/ Start67
    \/ Wait71
    \/ Wait74
    \/ Cancel
    \/ Listen
    \/ Unlisten
    \/ ClearInterrupt
    \/ Free
    \/ Rollover
    \/ CompareMatch
    \/ Handler

Spec == Init /\ [][Next]_vars

----------------------------------------------------------------------------
(* Properties of start / wait / cancel / free *)

\* C1: between a completed start and the next start, with no clear_interrupt
\* call, a wait reports WouldBlock whenever no rollover has occurred since the
\* later of that start and the last wait that reported Ok; after one or more
\* rollovers it goes on to report Ok and to clear uif, after which waits
\* report WouldBlock again until another rollover.
C1_WaitFollowsRollovers ==
    [][ /\ (Wait71 /\ ~irqclr /\ ~rolled) => (pc' = "idle" /\ res' = "WouldBlock")
        /\ (Wait71 /\ ~irqclr /\ rolled) => pc' = "wait_74"
        /\ Wait74 => (res' = "Ok" /\ uif' = 0 /\ ~rolled')
      ]_vars

\* a wait reported WouldBlock after an earlier wait had reported the one
\* rollover since start
C1_Witness ==
    /\ pc = "idle" /\ op = "wait" /\ res = "WouldBlock"
    /\ ~irqclr /\ nroll = 1 /\ nelapsed = 1 /\ uif = 0

\* C2: whenever start (also the one construction delegates to) has completed,
\* the counter is enabled and, until a rollover, uif is 0, whatever uif was
\* when start was called; a wait issued then reports WouldBlock.
C2_StartLeavesFlagClear ==
    /\ []((pc = "idle" /\ op = "start") => (cen = 1 /\ (~rolled => uif = 0)))
    /\ [][Start67 => (uif' = 0 /\ cen' = 1)]_vars
    /\ [][(Wait71 /\ op = "start" /\ ~rolled) =>
             (pc' = "idle" /\ res' = "WouldBlock")]_vars

\* a start called with uif set has completed and the wait after it, before
\* any rollover, reported WouldBlock
C2_Witness ==
    /\ pc = "idle" /\ op = "wait" /\ res = "WouldBlock"
    /\ uif0 = 1 /\ nroll = 0 /\ cen = 1

\* C3: cancel returns Ok exactly when cen = 1 and then leaves cen = 0; it
\* returns Disabled exactly when cen = 0.  A cancel right after a completed
\* start returns Ok; a cancel after a successful cancel, with no start in
\* between, returns Disabled.
C3_CancelGuard ==
    [][ Cancel =>
          /\ (cen = 1) => (res' = "Ok" /\ cen' = 0)
          /\ (cen = 0) => (res' = "Disabled" /\ cen' = 0)
          /\ (op = "start") => res' = "Ok"
          /\ cancelled => res' = "Disabled"
      ]_vars

\* a second cancel in a row failed with Disabled
C3_Witness ==
    pc = "idle" /\ op = "cancel" /\ res = "Disabled" /\ cancelled /\ cen = 0

\* C9: free returns the register block with the counter disabled
C9_FreeDisables ==
    (pc = "released" /\ op = "free") => cen = 0

\* free was called on a running timer (no cancel since start) with a rollover
\* pending
C9_Witness ==
    pc = "released" /\ op = "free" /\ ~cancelled /\ uif = 1 /\ cen = 0

\* C10: in any interleaving of rollovers, waits and clear_interrupt calls,
\* with wait's read and clear of uif as separate steps, wait has reported Ok
\* at most as often as the counter rolled over since the last start, and each
\* report comes with exactly one clear of uif by wait.
C10_NoDoubleReport ==
    nelapsed <= nroll /\ nclear = nelapsed

\* clear_interrupt ran between wait's read of uif and its clear, for the second
\* rollover since start, the first having been reported
C10_Witness ==
    pc = "wait_74" /\ uif = 0 /\ irqclr /\ nroll = 2 /\ nelapsed = 1

----------------------------------------------------------------------------
(* Properties of the prescaler / reload arithmetic.  At pc = "idle" the     *)
(* last start has completed: psc and arr hold what it wrote, timeout its    *)
(* argument and ticks its tick count.                                       *)

Clk16M == U32(16000000)

\* timeout_hz divides clock_hz
Divides == ~IsZero(timeout) /\ IsZero(Rem32(clock, timeout))

\* C4 as stated: when timeout_hz divides clock_hz and start completes,
\* (psc+1)*(arr+1) = clock_hz / timeout_hz
C4_ProductIsTicks ==
    (pc = "idle" /\ Divides) => Mul17(psc + 1, arr + 1) = ticks

\* C4 amended: when timeout_hz divides clock_hz and start completes, arr is
\* the quotient ticks / (psc+1) itself: (psc+1)*arr <= ticks < (psc+1)*(arr+1),
\* with ticks = clock_hz / timeout_hz
C4_ReloadIsQuotient ==
    (pc = "idle" /\ Divides) =>
        /\ ticks = Div32(clock, timeout)
        /\ Le(Mul17(psc + 1, arr), ticks)
        /\ Lt(ticks, Mul17(psc + 1, arr + 1))

\* start(1) completed on a 16 MHz clock: 245 * 65306 <= 16000000 < 245 * 65307
C4_Witness ==
    /\ pc = "idle" /\ op = "start" /\ clock = Clk16M /\ timeout = U32(1)
    /\ psc = 244 /\ arr = 65306

\* C5: whenever start completes, the psc it wrote is the smallest p >= 0 for
\* which ticks / (p+1) is below 2^16, and it equals ceil(ticks / 2^16) - 1
C5_PscMinimal ==
    (pc = "idle" /\ op = "start") =>
        /\ Fits16(Div32(ticks, U32(psc + 1)))
        /\ \A p \in 0 .. (psc - 1) : ~Fits16(Div32(ticks, U32(p + 1)))
        /\ psc = CeilDiv16(ticks) - 1

\* start completed with ticks = 4294967 = 65 * 2^16 + 35207 and psc = 65
C5_Witness ==
    /\ pc = "idle" /\ op = "start" /\ clock = Max32 /\ timeout = U32(1000)
    /\ ticks = U32(4294967) /\ psc = 65

\* C6 as stated: start panics only when ticks = clock_hz / timeout_hz is not
\* representable; whenever ticks >= 1 and ceil(ticks / 2^16) - 1 <= 65535 it
\* completes
C6_CompletesWhenRepresentable ==
    pc = "panicked" =>
        \/ fail = "div0_ticks"
        \/ IsZero(ticks)
        \/ CeilDiv16(ticks) - 1 > MaxU16

\* C7 as stated: on a 16 MHz clock start(1000) leaves psc = 0, arr = 15999 and
\* start(1) leaves psc = 243, arr = 65432
C7_SpecScenario ==
    /\ (pc = "idle" /\ clock = Clk16M /\ timeout = U32(1000)) =>
           (psc = 0 /\ arr = 15999)
    /\ (pc = "idle" /\ clock = Clk16M /\ timeout = U32(1)) =>
           (psc = 243 /\ arr = 65432)

\* C7 amended: on a 16 MHz clock start(1000) leaves psc = 0, arr = 16000;
\* a following start(1) on the same instance (arr still 16000 when it comes
\* to write arr) writes psc = 244 and arr = 65306
C7_CodeScenario ==
    /\ []((pc = "idle" /\ clock = Clk16M /\ timeout = U32(1000)) =>
             (psc = 0 /\ arr = 16000))
    /\ []((pc = "idle" /\ clock = Clk16M /\ timeout = U32(1)) =>
             (psc = 244 /\ arr = 65306))
    /\ [][(Start58 /\ clock = Clk16M /\ timeout = U32(1) /\ arr = 16000) =>
             (psc = 244 /\ arr' = 65306)]_vars

\* start(1) on the instance configured by start(1000) has written psc and is
\* about to write arr
C7_Witness ==
    /\ pc = "start_58" /\ clock = Clk16M /\ timeout = U32(1)
    /\ arr = 16000 /\ psc = 244 /\ arrv = 65306

\* a timeout that cannot be represented: 0, or above the clock (ticks = 0)
BadTimeout(t) == IsZero(t) \/ Lt(clock, t)

\* the computations of start that are still to come at pc all succeed
RestSucceeds ==
    CASE pc = "start_49" ->
            LET tk == TicksOf(clock, arg)
            IN  /\ tk.ok
                /\ PscOf(tk.val, checked).ok
                /\ ArrOf(tk.val, PscOf(tk.val, checked).val, checked).ok
      [] pc \in {"start_54", "start_56"} -> ArrOf(ticks, pscv, checked).ok
      [] OTHER -> TRUE

\* C8: a start called with timeout_hz = 0 or timeout_hz > clock_hz never gets
\* past the computation of arr, with overflow checks and with wrapping
\* arithmetic: it is before its panic or in it, and the counter is disabled
C8_BadTimeoutPanics ==
    (op = "start" /\ BadTimeout(arg)) =>
        /\ pc \in {"start_49", "start_54", "start_56", "panicked"}
        /\ (pc # "panicked" => ~RestSucceeds)
        /\ cen = 0

\* wrapping build, timeout above the clock: ticks = 0, ticks - 1 wrapped, the
\* prescaler 65535 was written, and psc + 1 wrapped to 0: division by zero
C8_Witness ==
    /\ pc = "panicked" /\ ~checked /\ op = "start"
    /\ ~IsZero(arg) /\ Lt(clock, arg)
    /\ IsZero(ticks) /\ psc = MaxU16 /\ fail = "div0_arr"

----------------------------------------------------------------------------
(* Properties of the interrupt operations, of the order of the steps of     *)
(* start and of the constructor, and of cancel's and start's effects        *)

\* the positions of the main context inside start
StartPcs == {"start_49", "start_54", "start_56", "start_58",
             "start_61", "start_65", "start_67"}

\* C11 as stated: while listening, a handler that returns without
\* clear_interrupt leaves the interrupt condition (uie = 1 and uif = 1) true;
\* clear_interrupt leaves uif = 0 and the condition false, and the condition
\* then becomes true again only by a rollover
C11_ClearedUntilRollover ==
    [][ /\ Handler => IrqCond'
        /\ ClearInterrupt => (uif' = 0 /\ ~IrqCond')
        /\ (sinceclr /\ ~IrqCond /\ IrqCond') => Rollover
      ]_vars

C13_WritesWhileStopped ==
    /\ [](pc \in StartPcs => cen = 0)
    /\ [][(psc' # psc \/ arr' # arr) => (cen = 0 /\ cen' = 0)]_vars

\* a start issued on a running timer has written a new reload value
C13_Witness ==
    pc = "start_61" /\ cen0 = 1 /\ cen = 0 /\ arr # arr0 /\ psc = pscv

\* C14: in start the update event is forced after psc and arr are written,
\* uif is cleared after it and the counter is enabled after that; when cen
\* becomes 1 the prescaler in effect and the reload are the ones this start
\* computed
C14_UpdateAfterWrites ==
    [][ /\ Start61 => (psc = pscv /\ arr = arrv /\ cen = 0)
        /\ Start65 => (psc_act = pscv /\ cen = 0)
        /\ Start67 => (uif = 0 /\ cen = 0 /\ cen' = 1 /\ psc_act' = pscv
                       /\ psc' = pscv /\ arr' = arrv)
      ]_vars

\* the forced update has put the new prescaler 244 in effect; the previous
\* configuration was psc 0, arr 16000
C14_Witness ==
    pc = "start_65" /\ psc_act = 244 /\ arr = 65306 /\ arr0 = 16000 /\ uif = 1

\* C15: the constructor sets the clock-enable bit, sets the reset bit, clears
\* it and only then runs start; before the reset is released only the reset
\* itself changes a timer register; when construction completes the enable
\* bit is 1, the reset bit 0, the stored timeout the requested one (not 0)
\* and the counter runs
C15_ConstructionOrder ==
    /\ [](pc = "new_102" => apb_en = 1)
    /\ [](pc = "new_103" => (apb_en = 1 /\ apb_rst = 1))
    /\ [](pc \in ({"new_107"} \cup Alive) => (apb_en = 1 /\ apb_rst = 0))
    /\ [][(pc \in {"new_101", "new_102", "new_103"} /\ regs' # regs) =>
             (New102 \/ Rollover)]_vars
    /\ []((pc = "idle" /\ ctor) =>
             (timeout = arg /\ ~IsZero(timeout) /\ cen = 1 /\ op = "start"))

\* the constructor has returned a running timer
C15_Witness ==
    /\ pc = "idle" /\ ctor /\ cen = 1 /\ apb_en = 1 /\ apb_rst = 0
    /\ timeout = U32(1000) /\ uie = 0

\* C16: a cancel that returns Disabled changes no register and not the stored
\* timeout; a cancel that returns Ok changes only cen
C16_CancelFrame ==
    [][ Cancel =>
          /\ UNCHANGED <<uif, uie, psc, arr, timeout, sr_oth, dier_oth, psc_act>>
          /\ (res' = "Disabled") => cen' = cen
          /\ (res' = "Ok") => (cen = 1 /\ cen' = 0)
      ]_vars

\* a cancel failed with Disabled and a pending rollover and the interrupt
\* enable are still there
C16_Witness ==
    pc = "idle" /\ op = "cancel" /\ res = "Disabled" /\ uif = 1 /\ uie = 1

\* C17 as stated: a start called while listening with uif = 0 never makes the
\* interrupt condition true at any of its steps
C17_StartRaisesNoInterrupt ==
    (pc \in StartPcs /\ uif0 = 0 /\ uie = 1) => ~IrqCond

\* C18 as stated: listen and unlisten change only uie in the interrupt-enable
\* register and clear_interrupt changes only uif in the status register
C18_OneBitOnly ==
    [][ /\ (Listen \/ Unlisten) => dier_oth' = dier_oth
        /\ ClearInterrupt => sr_oth' = sr_oth
      ]_vars

\* C19 as stated: after a successful cancel with no later start, wait reports
\* Ok exactly once if uif was set when cancel ran and never otherwise
C19_OnceAfterCancel ==
    [][ /\ (Wait71 /\ cancelled /\ uifc = 1 /\ okc = 0) => pc' = "wait_74"
        /\ (Wait71 /\ cancelled /\ (uifc = 0 \/ okc >= 1)) =>
               (pc' = "idle" /\ res' = "WouldBlock")
        /\ (cancelled' => okc' <= uifc')
      ]_vars

\* C19 amended: after a successful cancel with no later start, wait reports
\* Ok at most once: never if uif was clear when cancel ran; on the first wait
\* if uif was set when cancel ran and clear_interrupt was not called since;
\* and WouldBlock on every call after an Ok
C19_AtMostOnceAfterCancel ==
    [][ /\ (Wait71 /\ cancelled /\ uifc = 1 /\ okc = 0 /\ ~sinceclr) =>
               pc' = "wait_74"
        /\ (Wait71 /\ cancelled /\ (uifc = 0 \/ okc >= 1)) =>
               (pc' = "idle" /\ res' = "WouldBlock")
        /\ (cancelled' => okc' <= uifc')
      ]_vars

\* after a cancel that ran with uif set, one wait has reported Ok and the
\* next one WouldBlock, the counter still stopped
C19_Witness ==
    /\ pc = "idle" /\ op = "wait" /\ res = "WouldBlock"
    /\ cancelled /\ uifc = 1 /\ okc = 1 /\ cen = 0

\* C20: a start that panics leaves the counter disabled; the stored timeout
\* is already the new one, arr still the old one, and psc already the new
\* one when the panic is in the computation of arr
C20_FailedStartStopped ==
    pc = "panicked" =>
        /\ cen = 0
        /\ timeout = arg
        /\ arr = arr0
        /\ (fail \in {"add_overflow", "div0_arr", "arr_cast"}) => psc = pscv

\* a start on a running timer panicked on psc + 1: psc holds the new 65535,
\* arr the old 65075
C20_Witness ==
    /\ pc = "panicked" /\ fail = "add_overflow" /\ cen0 = 1 /\ cen = 0
    /\ psc = MaxU16 /\ arr = 65075

====
